---- MODULE Spec2Model ----
(***************************************************************************)
(* A model of the ember-data Store of                                      *)
(* packages/store/addon/-private/system/ds-model-store.ts: the factory     *)
(* cache, the schema definition caches, record instantiation and teardown, *)
(* and the destroyed-store guards.                                         *)
(*                                                                         *)
(* A type name is a sequence of one-character strings.  A JavaScript value *)
(* is a record with a tag field t; an object created by the store carries  *)
(* as ref its number among the objects of its kind, so that two values are *)
(* the same reference exactly when they are equal.                         *)
(***************************************************************************)
EXTENDS Integers, Sequences, FiniteSets

VARIABLES
  DEBUG,                \* the build flag of @glimmer/env
  CUSTOM_MODEL_CLASS,   \* the canary feature flag
  store,                \* the Store instance's fields
  other,                \* the fields of a second Store instance of the same owner
  registry,             \* the owner's registrations: canonical name -> factory
  classes,              \* class-level metadata of every factory's class
  heap,                 \* the number of objects allocated so far, by kind
  records,              \* the record objects created so far, by ref
  subscriptions,        \* the notification manager's subscriptions, in order
  last,                 \* the most recent call of a store method and its outcome
  handed,               \* history: per canonical name, the first factory _modelFactoryFor
                        \* returned and the type string it was asked with
  introspected          \* history: how often each type name's relationshipsObject was read

vars == <<DEBUG, CUSTOM_MODEL_CLASS, store, other, registry, classes, heap, records,
          subscriptions, last, handed, introspected>>

(***************************************************************************)
(* Bounds of the model.                                                    *)
(***************************************************************************)
MaxShims == 2
MaxDefinitions == 3
MaxServices == 2
MaxRecords == 2
MaxChanges == 1
MaxIntrospections == 2

(***************************************************************************)
(* JavaScript values.                                                      *)
(***************************************************************************)
Undefined == [t |-> "undefined"]
Null == [t |-> "null"]
Str(s) == [t |-> "string", s |-> s]
Bool(b) == [t |-> "boolean", b |-> b]
Class(f) == [t |-> "class", id |-> f]
Factory(f) == [t |-> "factory", id |-> f]

EmptyObject == [k \in {} |-> Undefined]
Get(o, k) == IF k \in DOMAIN o THEN o[k] ELSE Undefined
Put(o, k, v) == [x \in DOMAIN o \cup {k} |-> IF x = k THEN v ELSE o[x]]
Delete(o, k) == [x \in DOMAIN o \ {k} |-> o[x]]
\* An assign under which the target's keys are kept.
assign_keepingTarget(target, source) ==
  [x \in DOMAIN target \cup DOMAIN source |->
     IF x \in DOMAIN target THEN target[x] ELSE source[x]]

\* Object.assign: the source's own keys overwrite the target's.
assign(target, source) ==
  [x \in DOMAIN target \cup DOMAIN source |->
     IF x \in DOMAIN source THEN source[x] ELSE target[x]]

(***************************************************************************)
(* The environment: the type names callers pass, the factories the owner   *)
(* can hold and the metadata their classes declare.                        *)
(***************************************************************************)
TypeStrings == { <<"p">>, <<"a", "B">>, <<"a", "_", "b">>, <<>> }
ModelNameArgs == {Str(s) : s \in TypeStrings} \cup {Undefined, Class("P")}
Factories == {"P", "S"}
NoFactory == "none"
AttributeNames == {"name"}
RelationshipKeys == {"owner"}

\* String.prototype.toLowerCase on one character.
ToLowerCase(c) ==
  CASE c = "A" -> "a" [] c = "B" -> "b" [] c = "P" -> "p" [] OTHER -> c
IsUpperCase(c) == c \in {"A", "B", "P"}
IsLowerOrDigit(c) == c \in {"a", "b", "p", "1"}

\* decamelize: str.replace(/([a-z\d])([A-Z])/g, '$1_$2').toLowerCase()
RECURSIVE decamelize(_)
decamelize(s) ==
  IF Len(s) = 0 THEN <<>>
  ELSE IF Len(s) >= 2 /\ IsLowerOrDigit(s[1]) /\ IsUpperCase(s[2])
       THEN <<s[1], "_", ToLowerCase(s[2])>> \o decamelize(SubSeq(s, 3, Len(s)))
       ELSE <<ToLowerCase(s[1])>> \o decamelize(Tail(s))

\* dasherize: decamelize(key).replace(/[ _]/g, '-')
dasherize(s) ==
  LET d == decamelize(s)
  IN [i \in 1..Len(d) |-> IF d[i] \in {" ", "_"} THEN "-" ELSE d[i]]

normalizeModelName(s) == dasherize(s)

CanonicalNames == {normalizeModelName(s) : s \in TypeStrings \ {<<>>}}

NoRelationships == Undefined
RelationshipsObject(f, keys) == [t |-> "object", ref |-> 0, of |-> f, keys |-> keys]

(***************************************************************************)
(* Completions.  A method runs in a context c = [store, heap, log]: the    *)
(* store's fields, the allocation count and the events of the call so far  *)
(* (deprecations, owner lookups, class introspections, constructions).     *)
(* It completes by returning a value or by throwing one.                   *)
(***************************************************************************)
Return(c, v) == [c |-> c, k |-> "return", v |-> v]
Throw(c, e) == [c |-> c, k |-> "throw", v |-> e]
Event(e, text, about) == [e |-> e, text |-> text, about |-> about]
Log(c, ev) == [c EXCEPT !.log = Append(@, ev)]
\* The allocation of an object of a kind: its ref is the next of that kind.
NextRef(c, kind) == c.heap[kind] + 1
Allocate(c, kind) == [c EXCEPT !.heap[kind] = @ + 1]
Error(class, text, about) == [t |-> "error", class |-> class, text |-> text, about |-> about]

\* An isPresent that takes a blank string for present.
isPresent_acceptingBlank(v) == v.t \notin {"undefined", "null"}

\* @ember/utils isPresent: neither null nor undefined nor a blank string.
isPresent(v) ==
  /\ v.t \notin {"undefined", "null"}
  /\ v.t = "string" => \E i \in 1..Len(v.s) : v.s[i] # " "

typeof(v) == IF v.t \in {"class", "factory", "shim"} THEN "function" ELSE v.t

\* @ember/debug assert: throws in a debug build, a no-op in a production build.
assert(c, text, about, test) ==
  IF DEBUG /\ ~test
  THEN Throw(c, Error("Assertion Failed", text, about))
  ELSE Return(c, Undefined)

\* @ember/application/deprecations deprecate: warns when the test is false.
deprecate(c, text, about, test) ==
  IF DEBUG /\ ~test
  THEN Return(Log(c, Event("deprecate", text, about)), Undefined)
  ELSE Return(c, Undefined)

DestroyedStoreMessage ==
  "Attempted to call store.${method}(), but the store instance has already been destroyed."
NeedModelNameMessage == "You need to pass a model name to the store's ${method} method"
PassingClassesMessage ==
  "Passing classes to store methods has been removed. Please pass a dasherized string instead of ${modelName}"
NoModelMessage == "No model was found for '${normalizedModelName}'"
SchemaServiceMessage ==
  "schema service is only available when custom model class feature flag is on"

\* assertDestroyingStore tripping on a destroyed store only.
assertDestroyingStore_destroyedOnly(c, method) ==
  IF ~c.store.shouldAssertMethodCallsOnDestroyedStore
  THEN deprecate(c, DestroyedStoreMessage, <<method>>, ~c.store.isDestroyed)
  ELSE assert(c, DestroyedStoreMessage, <<method>>, ~c.store.isDestroyed)

assertDestroyingStore(c, method) ==
  IF ~c.store.shouldAssertMethodCallsOnDestroyedStore
  THEN deprecate(c, DestroyedStoreMessage, <<method>>,
                 ~(c.store.isDestroying \/ c.store.isDestroyed))
  ELSE assert(c, DestroyedStoreMessage, <<method>>,
              ~(c.store.isDestroying \/ c.store.isDestroyed))

\* assertDestroyedStoreOnly asserting whatever the store's flag says.
assertDestroyedStoreOnly_alwaysAsserting(c, method) ==
  assert(c, DestroyedStoreMessage, <<method>>, ~c.store.isDestroyed)

assertDestroyedStoreOnly(c, method) ==
  IF ~c.store.shouldAssertMethodCallsOnDestroyedStore
  THEN deprecate(c, DestroyedStoreMessage, <<method>>, ~c.store.isDestroyed)
  ELSE assert(c, DestroyedStoreMessage, <<method>>, ~c.store.isDestroyed)

\* The two asserts every method with a modelName parameter starts with.
assertModelName(c, method, modelName) ==
  LET a1 == assert(c, NeedModelNameMessage, <<method>>, isPresent(modelName))
  IN IF a1.k = "throw" THEN a1
     ELSE assert(a1.c, PassingClassesMessage, <<>>, typeof(modelName) = "string")

\* normalizeModelName applied to any value: String methods of a non-string throw.
Normalize(c, modelName) ==
  IF modelName.t = "string"
  THEN Return(c, Str(normalizeModelName(modelName.s)))
  ELSE Throw(c, Error("TypeError", "key.replace is not a function", <<>>))

\* The owner's factoryFor(`model:${normalizedModelName}`).
LookupModelFactory(normalizedModelName) ==
  IF normalizedModelName \in DOMAIN registry /\ registry[normalizedModelName] # NoFactory
  THEN Factory(registry[normalizedModelName])
  ELSE Null

\* getModelFactory(store, cache, normalizedModelName): the cached factory, or
\* the owner's, which is then cached; null, and nothing cached, when there is none.
getModelFactory(c, cache, normalizedModelName) ==
  LET cached == Get(cache, normalizedModelName)
  IN IF cached # Undefined
     THEN [c |-> c, cache |-> cache, v |-> cached]
     ELSE LET c1 == Log(c, Event("lookup", "factoryFor", normalizedModelName))
              factory == LookupModelFactory(normalizedModelName)
          IN IF factory = Null
             THEN [c |-> c1, cache |-> cache, v |-> Null]
             ELSE [c |-> c1, cache |-> Put(cache, normalizedModelName, factory),
                   v |-> factory]

(***************************************************************************)
(* The Store's methods.  A method is a chain of steps; the step that        *)
(* follows a call takes the call's completion and either passes a throw on  *)
(* or goes on with the method's next statement.                             *)
(***************************************************************************)
\* if (DEBUG) { assertDestroyedStoreOnly(this, method) }
DebugAssertDestroyedStoreOnly(c, method) ==
  IF DEBUG THEN assertDestroyedStoreOnly(c, method) ELSE Return(c, Undefined)

\* if (DEBUG) { assertDestroyingStore(this, method) }
DebugAssertDestroyingStore(c, method) ==
  IF DEBUG THEN assertDestroyingStore(c, method) ELSE Return(c, Undefined)

\* _modelFactoryFor looking the factory up without the store's cache.
_modelFactoryFor_uncached(c, modelName) ==
  LET g == DebugAssertDestroyedStoreOnly(c, "_modelFactoryFor")
  IN IF g.k = "throw" THEN g ELSE
     LET a == assertModelName(g.c, "_modelFactoryFor", modelName)
     IN IF a.k = "throw" THEN a ELSE
        LET n == Normalize(a.c, modelName)
        IN IF n.k = "throw" THEN n ELSE
           LET got == getModelFactory(n.c, EmptyObject, n.v.s)
           IN IF got.v = Null
              THEN Throw(got.c, Error("EmberError", NoModelMessage, n.v.s))
              ELSE Return(got.c, got.v)

\* _modelFactoryFor checking its argument before the destroyed-store guard.
_modelFactoryFor_validatingFirst(c, modelName) ==
  LET a == assertModelName(c, "_modelFactoryFor", modelName)
  IN IF a.k = "throw" THEN a ELSE
     LET g == DebugAssertDestroyedStoreOnly(a.c, "_modelFactoryFor")
     IN IF g.k = "throw" THEN g ELSE
        LET n == Normalize(g.c, modelName)
        IN IF n.k = "throw" THEN n ELSE
           LET got == getModelFactory(n.c, n.c.store._modelFactoryCache, n.v.s)
               c1 == [got.c EXCEPT !.store._modelFactoryCache = got.cache]
           IN IF got.v = Null
              THEN Throw(c1, Error("EmberError", NoModelMessage, n.v.s))
              ELSE Return(c1, got.v)

\* _modelFactoryFor leaving a placeholder in the cache when it finds no factory.
_modelFactoryFor_cachingPlaceholder(c, modelName) ==
  LET g == DebugAssertDestroyedStoreOnly(c, "_modelFactoryFor")
  IN IF g.k = "throw" THEN g ELSE
     LET a == assertModelName(g.c, "_modelFactoryFor", modelName)
     IN IF a.k = "throw" THEN a ELSE
        LET n == Normalize(a.c, modelName)
        IN IF n.k = "throw" THEN n ELSE
           LET got == getModelFactory(n.c, n.c.store._modelFactoryCache, n.v.s)
           IN IF got.v = Null
              THEN Throw([got.c EXCEPT !.store._modelFactoryCache =
                                          Put(got.cache, n.v.s, Null)],
                         Error("EmberError", NoModelMessage, n.v.s))
              ELSE Return([got.c EXCEPT !.store._modelFactoryCache = got.cache],
                          got.v)

\* if (factory === null) throw new EmberError(...); return factory
_modelFactoryFor_factory(got, normalizedModelName) ==
  IF got.v = Null
  THEN Throw([got.c EXCEPT !.store._modelFactoryCache = got.cache],
             Error("EmberError", NoModelMessage, normalizedModelName))
  ELSE Return([got.c EXCEPT !.store._modelFactoryCache = got.cache], got.v)

\* let factory = getModelFactory(this, this._modelFactoryCache, normalizedModelName)
_modelFactoryFor_normalized(n) ==
  IF n.k = "throw" THEN n
  ELSE _modelFactoryFor_factory(
         getModelFactory(n.c, n.c.store._modelFactoryCache, n.v.s), n.v.s)

\* let normalizedModelName = normalizeModelName(modelName)
_modelFactoryFor_asserted(a, modelName) ==
  IF a.k = "throw" THEN a
  ELSE _modelFactoryFor_normalized(Normalize(a.c, modelName))

\* the two asserts, once the guard has let the call through
_modelFactoryFor_guarded(g, modelName) ==
  IF g.k = "throw" THEN g
  ELSE _modelFactoryFor_asserted(
         assertModelName(g.c, "_modelFactoryFor", modelName), modelName)

_modelFactoryFor(c, modelName) ==
  _modelFactoryFor_guarded(DebugAssertDestroyedStoreOnly(c, "_modelFactoryFor"),
                           modelName)

\* One stand-in per type name, handed out again on every call.
NewShimModelClass_shared(c, modelName) ==
  Return(c, [t |-> "shim", ref |-> 1, modelName |-> modelName])

\* new ShimModelClass(this, modelName)
NewShimModelClass(c, modelName) ==
  Return(Allocate(c, "shims"),
         [t |-> "shim", ref |-> NextRef(c, "shims"), modelName |-> modelName])

\* let klass = maybeFactory.class; the class, or a shim when it is no model
modelFor_klass(maybeFactory, modelName) ==
  IF maybeFactory.k = "throw" THEN maybeFactory
  ELSE IF ~classes[maybeFactory.v.id].isModel
       THEN NewShimModelClass(maybeFactory.c, modelName)
       ELSE Return(maybeFactory.c, Class(maybeFactory.v.id))

\* let maybeFactory = this._modelFactoryFor(modelName)
modelFor_asserted(a, modelName) ==
  IF a.k = "throw" THEN a
  ELSE modelFor_klass(_modelFactoryFor(a.c, modelName), modelName)

\* the two asserts, once the guard has let the call through
modelFor_guarded(g, modelName) ==
  IF g.k = "throw" THEN g
  ELSE modelFor_asserted(assertModelName(g.c, "modelFor", modelName), modelName)

modelFor(c, modelName) ==
  modelFor_guarded(DebugAssertDestroyedStoreOnly(c, "modelFor"), modelName)

\* getSchemaDefinitionService constructing a service on every call.
getSchemaDefinitionService_recreating(c) ==
  IF CUSTOM_MODEL_CLASS
  THEN LET service == [t |-> "service", ref |-> NextRef(c, "services")]
           c1 == Log([Allocate(c, "services") EXCEPT
                        !.store._schemaDefinitionService = service],
                     Event("new", "DSModelSchemaDefinitionService", <<>>))
       IN Return(c1, service)
  ELSE Throw(c, Error("string", SchemaServiceMessage, <<>>))

getSchemaDefinitionService(c) ==
  IF CUSTOM_MODEL_CLASS
  THEN IF c.store._schemaDefinitionService = Undefined
       THEN LET service == [t |-> "service", ref |-> NextRef(c, "services")]
                c1 == Log([Allocate(c, "services") EXCEPT
                             !.store._schemaDefinitionService = service],
                          Event("new", "DSModelSchemaDefinitionService", <<>>))
            IN Return(c1, service)
       ELSE Return(c, c.store._schemaDefinitionService)
  ELSE Throw(c, Error("string", SchemaServiceMessage, <<>>))

\* get(modelClass, 'attributes'): the names of the class's attribute map.
GetAttributes(modelClass) ==
  IF modelClass.t = "class" THEN classes[modelClass.id].attributes ELSE {}

\* get(modelClass, 'relationshipsObject')
GetRelationshipsObject(modelClass) ==
  IF modelClass.t = "class" THEN classes[modelClass.id].relationshipsObject
  ELSE Undefined

\* get(modelClass, 'relationshipsByName').get(key)
GetRelationshipByName(modelClass, key) ==
  IF GetRelationshipsObject(modelClass) # Undefined
     /\ key \in GetRelationshipsObject(modelClass).keys
  THEN [t |-> "meta", key |-> key]
  ELSE Undefined

\* The schema service's doesTypeExist: whether getModelFactory finds a factory.
ServiceDoesTypeExist_factory(got) ==
  Return([got.c EXCEPT !.store._modelFactoryCache = got.cache], Bool(got.v # Null))

ServiceDoesTypeExist_normalized(n) ==
  IF n.k = "throw" THEN n
  ELSE ServiceDoesTypeExist_factory(
         getModelFactory(n.c, n.c.store._modelFactoryCache, n.v.s))

ServiceDoesTypeExist(c, modelName) ==
  ServiceDoesTypeExist_normalized(Normalize(c, modelName))

\* The schema service's attributesDefinitionFor: the attributes of modelFor's class.
ServiceAttributesDefinitionFor_modelClass(modelClass) ==
  IF modelClass.k = "throw" THEN modelClass
  ELSE Return(modelClass.c,
              [t |-> "provided", keys |-> GetAttributes(modelClass.v)])

ServiceAttributesDefinitionFor(c, modelName) ==
  ServiceAttributesDefinitionFor_modelClass(modelFor(c, modelName))

\* The schema service's relationshipsDefinitionFor: the relationships of
\* modelFor's class.
ServiceRelationshipsDefinitionFor_modelClass(modelClass) ==
  IF modelClass.k = "throw" THEN modelClass
  ELSE Return(modelClass.c,
              [t |-> "provided",
               keys |-> IF GetRelationshipsObject(modelClass.v) = Undefined
                        THEN {}
                        ELSE GetRelationshipsObject(modelClass.v).keys])

ServiceRelationshipsDefinitionFor(c, modelName) ==
  ServiceRelationshipsDefinitionFor_modelClass(modelFor(c, modelName))

\* _hasModelFor remembering in the cache that it found no factory.
_hasModelFor_cachingAbsence(c, modelName) ==
  LET g == DebugAssertDestroyingStore(c, "_hasModelFor")
  IN IF g.k = "throw" THEN g ELSE
     LET a == assertModelName(g.c, "hasModelFor", modelName)
     IN IF a.k = "throw" THEN a ELSE
        LET n == Normalize(a.c, modelName)
        IN IF n.k = "throw" THEN n ELSE
           LET got == getModelFactory(n.c, n.c.store._modelFactoryCache, n.v.s)
           IN Return([got.c EXCEPT !.store._modelFactoryCache =
                                      Put(got.cache, n.v.s, got.v)],
                     Bool(got.v # Null))

\* return factory !== null
_hasModelFor_factory(got) ==
  Return([got.c EXCEPT !.store._modelFactoryCache = got.cache], Bool(got.v # Null))

\* let factory = getModelFactory(this, this._modelFactoryCache, normalizedModelName)
_hasModelFor_normalized(n) ==
  IF n.k = "throw" THEN n
  ELSE _hasModelFor_factory(
         getModelFactory(n.c, n.c.store._modelFactoryCache, n.v.s))

\* the legacy branch after its own two asserts
_hasModelFor_legacy(a2, modelName) ==
  IF a2.k = "throw" THEN a2
  ELSE _hasModelFor_normalized(Normalize(a2.c, modelName))

\* if (CUSTOM_MODEL_CLASS) ... else ...
_hasModelFor_asserted(a, modelName) ==
  IF a.k = "throw" THEN a
  ELSE IF CUSTOM_MODEL_CLASS
       THEN ServiceDoesTypeExist(getSchemaDefinitionService(a.c).c, modelName)
       ELSE _hasModelFor_legacy(assertModelName(a.c, "hasModelFor", modelName),
                                modelName)

\* the two asserts, once the guard has let the call through
_hasModelFor_guarded(g, modelName) ==
  IF g.k = "throw" THEN g
  ELSE _hasModelFor_asserted(assertModelName(g.c, "hasModelFor", modelName),
                             modelName)

_hasModelFor(c, modelName) ==
  _hasModelFor_guarded(DebugAssertDestroyingStore(c, "_hasModelFor"), modelName)

\* attributes = Object.create(null), filled from the class's attribute map
\* and stored in the cache under modelName
_attributesDefinitionFor_modelClass(modelClass, modelName) ==
  IF modelClass.k = "throw" THEN modelClass
  ELSE Return(
         [Allocate(Log(modelClass.c, Event("get", "attributes", modelName.s)),
                   "definitions")
            EXCEPT !.store._attributesDefCache =
                     Put(@, modelName.s,
                         [t |-> "object",
                          ref |-> NextRef(modelClass.c, "definitions"),
                          keys |-> GetAttributes(modelClass.v)])],
         [t |-> "object", ref |-> NextRef(modelClass.c, "definitions"),
          keys |-> GetAttributes(modelClass.v)])

\* _attributesDefinitionFor computing the definitions anew on every call.
_attributesDefinitionFor_recomputing(c, modelName) ==
  IF CUSTOM_MODEL_CLASS
  THEN ServiceAttributesDefinitionFor(getSchemaDefinitionService(c).c, modelName)
  ELSE _attributesDefinitionFor_modelClass(modelFor(c, modelName), modelName)

\* _attributesDefinitionFor with a destroyed-store guard of its own ahead of
\* the cache.
_attributesDefinitionFor_guardingFirst(c, modelName) ==
  LET g == DebugAssertDestroyedStoreOnly(c, "_attributesDefinitionFor")
  IN IF g.k = "throw" THEN g
     ELSE IF CUSTOM_MODEL_CLASS
     THEN ServiceAttributesDefinitionFor(getSchemaDefinitionService(g.c).c, modelName)
     ELSE IF Get(g.c.store._attributesDefCache, modelName.s) # Undefined
          THEN Return(g.c, Get(g.c.store._attributesDefCache, modelName.s))
          ELSE _attributesDefinitionFor_modelClass(modelFor(g.c, modelName), modelName)

_attributesDefinitionFor(c, modelName) ==
  IF CUSTOM_MODEL_CLASS
  THEN ServiceAttributesDefinitionFor(getSchemaDefinitionService(c).c, modelName)
  ELSE IF Get(c.store._attributesDefCache, modelName.s) # Undefined
       THEN Return(c, Get(c.store._attributesDefCache, modelName.s))
       ELSE _attributesDefinitionFor_modelClass(modelFor(c, modelName), modelName)

\* get(modelClass, 'relationshipsObject') || null
RelationshipsOrNull(modelClass) ==
  IF GetRelationshipsObject(modelClass) = Undefined THEN Null
  ELSE GetRelationshipsObject(modelClass)

\* relationships = get(modelClass, 'relationshipsObject') || null, stored in
\* the cache under modelName
_relationshipsDefinitionFor_modelClass(modelClass, modelName) ==
  IF modelClass.k = "throw" THEN modelClass
  ELSE Return(
         [Log(modelClass.c, Event("get", "relationshipsObject", modelName.s))
            EXCEPT !.store._relationshipsDefCache =
                     Put(@, modelName.s, RelationshipsOrNull(modelClass.v))],
         RelationshipsOrNull(modelClass.v))

\* _relationshipsDefinitionFor taking a cached null for a miss.
_relationshipsDefinitionFor_falsyMiss(c, modelName) ==
  IF CUSTOM_MODEL_CLASS
  THEN ServiceRelationshipsDefinitionFor(getSchemaDefinitionService(c).c, modelName)
  ELSE IF Get(c.store._relationshipsDefCache, modelName.s) \notin {Undefined, Null}
       THEN Return(c, Get(c.store._relationshipsDefCache, modelName.s))
       ELSE _relationshipsDefinitionFor_modelClass(modelFor(c, modelName), modelName)

_relationshipsDefinitionFor(c, modelName) ==
  IF CUSTOM_MODEL_CLASS
  THEN ServiceRelationshipsDefinitionFor(getSchemaDefinitionService(c).c, modelName)
  ELSE IF Get(c.store._relationshipsDefCache, modelName.s) # Undefined
       THEN Return(c, Get(c.store._relationshipsDefCache, modelName.s))
       ELSE _relationshipsDefinitionFor_modelClass(modelFor(c, modelName), modelName)

\* this._relationshipsDefinitionFor(modelName)[key]
_relationshipMetaFor_definitions(definitions, key) ==
  IF definitions.k = "throw" THEN definitions
  ELSE Return(definitions.c,
              IF key \in definitions.v.keys THEN [t |-> "meta", key |-> key]
              ELSE Undefined)

\* get(modelClass, 'relationshipsByName').get(key)
_relationshipMetaFor_modelClass(modelClass, key) ==
  IF modelClass.k = "throw" THEN modelClass
  ELSE Return(modelClass.c, GetRelationshipByName(modelClass.v, key))

\* _relationshipMetaFor answering from the definitions cache in either mode.
_relationshipMetaFor_cached(c, modelName, id, key) ==
  LET definitions == _relationshipsDefinitionFor(c, modelName)
  IN IF definitions.k = "throw" THEN definitions
     ELSE Return(definitions.c,
                 IF definitions.v # Null /\ key \in definitions.v.keys
                 THEN [t |-> "meta", key |-> key]
                 ELSE Undefined)

_relationshipMetaFor(c, modelName, id, key) ==
  IF CUSTOM_MODEL_CLASS
  THEN _relationshipMetaFor_definitions(_relationshipsDefinitionFor(c, modelName), key)
  ELSE _relationshipMetaFor_modelClass(modelFor(c, modelName), key)

(***************************************************************************)
(* Record instantiation and teardown.  The notification manager is the     *)
(* sequence of its subscriptions; a subscription's handler is the closure  *)
(* of line 142, which is determined by the record it captured.             *)
(***************************************************************************)
Identifiers == { [type |-> <<"p">>, id |-> "1"], [type |-> <<"a", "-", "b">>, id |-> "2"] }
CallerState == [t |-> "state", name |-> "caller"]
CreateRecordArgs ==
  { EmptyObject,
    [k \in {"store", "_internalModel", "currentState", "container", "name"} |->
       CallerState] }

\* this._internalModelForResource(identifier)
_internalModelForResource(identifier) ==
  [t |-> "internalModel", identifier |-> identifier,
   currentState |-> [t |-> "state", name |-> "root.empty"]]

\* setOwner(object, owner)
setOwner(object, owner) == Put(object, "OWNER", owner)
\* getOwner(this)
getOwner(c) == [t |-> "owner"]

\* notificationManager.subscribe(identifier, callback): the callback applies
\* what it is told to `record`.
\* subscribe with one handler for every record: it applies to the first record.
subscribe_generic(subs, identifier, record) ==
  Append(subs, [identifier |-> identifier, record |-> 1])

subscribe(subs, identifier, record) ==
  Append(subs, [identifier |-> identifier, record |-> record.ref])

\* instantiateRecord subscribing before it resolves the factory.
instantiateRecord_subscribingFirst(c, subs, identifier, createRecordArgs) ==
  LET factory == _modelFactoryFor(c, Str(identifier.type))
      record == [t |-> "record", ref |-> NextRef(c, "records")]
      createOptions ==
        Delete(setOwner(assign([k \in {"store", "_internalModel", "currentState",
                                       "container"} |-> Null],
                               createRecordArgs), getOwner(c)), "container")
  IN IF factory.k = "throw"
     THEN [c |-> factory.c, k |-> "throw", v |-> factory.v,
           subs |-> subscribe(subs, identifier, record), fields |-> Undefined]
     ELSE [c |-> Allocate(factory.c, "records"), k |-> "return", v |-> record,
           subs |-> subscribe(subs, identifier, record),
           fields |-> [class |-> factory.v.id, identifier |-> identifier,
                       createOptions |-> createOptions,
                       isDestroyed |-> FALSE, changes |-> 0]]

\* The result carries the record's fields and the subscriptions as well.
instantiateRecord(c, subs, identifier, createRecordArgs) ==
  LET modelName == Str(identifier.type)
      internalModel == _internalModelForResource(identifier)
      createOptions0 == [k \in {"store", "_internalModel", "currentState", "container"} |->
                           CASE k = "store" -> [t |-> "store"]
                             [] k = "_internalModel" -> internalModel
                             [] k = "currentState" -> internalModel.currentState
                             [] OTHER -> Null]
      createOptions1 == assign(createOptions0, createRecordArgs)
      createOptions2 == setOwner(createOptions1, getOwner(c))
      createOptions == Delete(createOptions2, "container")
      factory == _modelFactoryFor(c, modelName)
  IN IF factory.k = "throw"
     THEN [c |-> factory.c, k |-> "throw", v |-> factory.v,
           subs |-> subs, fields |-> Undefined]
     ELSE LET record == [t |-> "record", ref |-> NextRef(factory.c, "records")]
          IN [c |-> Allocate(factory.c, "records"), k |-> "return", v |-> record,
              subs |-> subscribe(subs, identifier, record),
              fields |-> [class |-> factory.v.id, identifier |-> identifier,
                          createOptions |-> createOptions,
                          isDestroyed |-> FALSE, changes |-> 0]]

\* record.destroy()
Destroy(fields) == [fields EXCEPT !.isDestroyed = TRUE]

teardownRecord(recs, record) == [recs EXCEPT ![record] = Destroy(@)]

\* notifyChanges(identifier, value, record, store)
notifyChanges(recs, record) == [recs EXCEPT ![record].changes = @ + 1]

RECURSIVE Deliver(_, _, _)
\* The notification manager calls every callback subscribed to the identifier.
Deliver(recs, subs, identifier) ==
  IF subs = <<>> THEN recs
  ELSE Deliver(IF Head(subs).identifier = identifier
               THEN notifyChanges(recs, Head(subs).record) ELSE recs,
               Tail(subs), identifier)

(***************************************************************************)
(* The state machine.                                                      *)
(***************************************************************************)
NoCall == [op |-> "none", args |-> <<>>, k |-> "return", v |-> Undefined, log |-> <<>>]

Init ==
  /\ DEBUG \in BOOLEAN
  /\ CUSTOM_MODEL_CLASS \in BOOLEAN
  /\ \E strict \in BOOLEAN :
       store = [_modelFactoryCache |-> EmptyObject,
                _relationshipsDefCache |-> EmptyObject,
                _attributesDefCache |-> EmptyObject,
                _schemaDefinitionService |-> Undefined,
                shouldAssertMethodCallsOnDestroyedStore |-> strict,
                isDestroying |-> FALSE,
                isDestroyed |-> FALSE]
  /\ other = store
  /\ registry = [n \in CanonicalNames |-> NoFactory]
  /\ classes = [f \in Factories |->
                  [isModel |-> (f = "P"), attributes |-> {},
                   relationshipsObject |-> NoRelationships]]
  /\ heap = [kind \in {"shims", "definitions", "services", "records"} |-> 0]
  /\ records = EmptyObject
  /\ subscriptions = <<>>
  /\ last = NoCall
  /\ handed = EmptyObject
  /\ introspected = EmptyObject

Context == [store |-> store, heap |-> heap, log |-> <<>>]

Occurrences(log, ev) == Cardinality({i \in 1..Len(log) : log[i] = ev})

\* The caches and the service handle are instance properties, each initialised
\* with an object of its own when the instance is constructed
\* (`Object.create(null)`), and every method reaches them through `this`:
\* what a call on one instance writes is not a field of another instance.
FieldsOfOther_static(b, a) ==
  [b EXCEPT !._modelFactoryCache = a._modelFactoryCache,
            !._relationshipsDefCache = a._relationshipsDefCache,
            !._attributesDefCache = a._attributesDefCache,
            !._schemaDefinitionService = a._schemaDefinitionService]

FieldsOfOther(b, a) == b

\* What every call of a store method leaves behind: the store's fields, the
\* allocation count, the call's outcome, and the history of the run.
Finish(op, args, r) ==
  /\ r.c.heap["shims"] <= MaxShims
  /\ r.c.heap["definitions"] <= MaxDefinitions
  /\ r.c.heap["services"] <= MaxServices
  /\ r.c.heap["records"] <= MaxRecords
  /\ store' = r.c.store
  /\ other' = FieldsOfOther(other, r.c.store)
  /\ heap' = r.c.heap
  /\ last' = [op |-> op, args |-> args, k |-> r.k, v |-> r.v, log |-> r.c.log]
  /\ introspected' =
       [s \in DOMAIN introspected \cup
              {s \in TypeStrings :
                 Occurrences(r.c.log, Event("get", "relationshipsObject", s)) > 0} |->
          (IF s \in DOMAIN introspected THEN introspected[s] ELSE 0)
          + Occurrences(r.c.log, Event("get", "relationshipsObject", s))]
  /\ \A s \in DOMAIN introspected' : introspected'[s] <= MaxIntrospections
  /\ handed' =
       IF op = "_modelFactoryFor" /\ r.k = "return"
          /\ normalizeModelName(args[1].s) \notin DOMAIN handed
       THEN Put(handed, normalizeModelName(args[1].s), [by |-> args[1].s, factory |-> r.v])
       ELSE handed

ModelFor(args) ==
  \E modelName \in args :
    /\ Finish("modelFor", <<modelName>>, modelFor(Context, modelName))
    /\ UNCHANGED <<DEBUG, CUSTOM_MODEL_CLASS, registry, classes, records, subscriptions>>

ModelFactoryFor(args) ==
  \E modelName \in args :
    /\ Finish("_modelFactoryFor", <<modelName>>, _modelFactoryFor(Context, modelName))
    /\ UNCHANGED <<DEBUG, CUSTOM_MODEL_CLASS, registry, classes, records, subscriptions>>

HasModelFor(args) ==
  \E modelName \in args :
    /\ Finish("_hasModelFor", <<modelName>>, _hasModelFor(Context, modelName))
    /\ UNCHANGED <<DEBUG, CUSTOM_MODEL_CLASS, registry, classes, records, subscriptions>>

RelationshipMetaFor(names) ==
  \E s \in names, key \in RelationshipKeys :
    /\ Finish("_relationshipMetaFor", <<Str(s), Null, Str(<<key>>)>>,
              _relationshipMetaFor(Context, Str(s), Null, key))
    /\ UNCHANGED <<DEBUG, CUSTOM_MODEL_CLASS, registry, classes, records, subscriptions>>

AttributesDefinitionFor(names) ==
  \E s \in names :
    /\ Finish("_attributesDefinitionFor", <<Str(s)>>,
              _attributesDefinitionFor(Context, Str(s)))
    /\ UNCHANGED <<DEBUG, CUSTOM_MODEL_CLASS, registry, classes, records, subscriptions>>

RelationshipsDefinitionFor(names) ==
  \E s \in names :
    /\ Finish("_relationshipsDefinitionFor", <<Str(s)>>,
              _relationshipsDefinitionFor(Context, Str(s)))
    /\ UNCHANGED <<DEBUG, CUSTOM_MODEL_CLASS, registry, classes, records, subscriptions>>

GetSchemaDefinitionService ==
  /\ Finish("getSchemaDefinitionService", <<>>, getSchemaDefinitionService(Context))
  /\ UNCHANGED <<DEBUG, CUSTOM_MODEL_CLASS, registry, classes, records, subscriptions>>

InstantiateRecord ==
  \E identifier \in Identifiers, createRecordArgs \in CreateRecordArgs :
    LET r == instantiateRecord(Context, subscriptions, identifier, createRecordArgs)
    IN /\ Finish("instantiateRecord", <<identifier, createRecordArgs>>, r)
       /\ subscriptions' = r.subs
       /\ records' = IF r.k = "return" THEN Put(records, r.v.ref, r.fields) ELSE records
       /\ UNCHANGED <<DEBUG, CUSTOM_MODEL_CLASS, registry, classes>>

TeardownRecord ==
  \E record \in DOMAIN records :
    /\ ~records[record].isDestroyed
    /\ records' = teardownRecord(records, record)
    /\ last' = [op |-> "teardownRecord", args |-> <<[t |-> "record", ref |-> record]>>,
                k |-> "return", v |-> Undefined, log |-> <<>>]
    /\ UNCHANGED <<DEBUG, CUSTOM_MODEL_CLASS, other, store, registry, classes, heap,
                   subscriptions, handed, introspected>>

\* The caller turns to the other Store instance: the next calls are its.
SwitchStore ==
  /\ store' = other
  /\ other' = store
  /\ last' = NoCall
  /\ UNCHANGED <<DEBUG, CUSTOM_MODEL_CLASS, registry, classes, heap, records,
                 subscriptions, handed, introspected>>

(***************************************************************************)
(* The environment's steps.                                                *)
(***************************************************************************)
\* owner.register(`model:${name}`, factory)
Register(registrations) ==
  \E name \in CanonicalNames, f \in Factories :
    /\ <<name, f>> \in registrations
    /\ registry[name] = NoFactory
    /\ registry' = [registry EXCEPT ![name] = f]
    /\ last' = NoCall
    /\ UNCHANGED <<DEBUG, CUSTOM_MODEL_CLASS, other, store, classes, heap, records,
                   subscriptions, handed, introspected>>

\* owner.unregister(`model:${name}`)
Unregister(names) ==
  \E name \in names :
    /\ registry[name] # NoFactory
    /\ registry' = [registry EXCEPT ![name] = NoFactory]
    /\ last' = NoCall
    /\ UNCHANGED <<DEBUG, CUSTOM_MODEL_CLASS, other, store, classes, heap, records,
                   subscriptions, handed, introspected>>

\* A model class's attribute map is changed.
DefineAttributes ==
  \E f \in Factories, names \in SUBSET AttributeNames :
    /\ classes[f].isModel
    /\ names # classes[f].attributes
    /\ classes' = [classes EXCEPT ![f].attributes = names]
    /\ last' = NoCall
    /\ UNCHANGED <<DEBUG, CUSTOM_MODEL_CLASS, other, store, registry, heap, records,
                   subscriptions, handed, introspected>>

\* A model class's relationships are changed.
DefineRelationships ==
  \E f \in Factories :
  \E object \in {NoRelationships} \cup
                {RelationshipsObject(f, keys) : keys \in SUBSET RelationshipKeys} :
    /\ classes[f].isModel
    /\ object # classes[f].relationshipsObject
    /\ classes' = [classes EXCEPT ![f].relationshipsObject = object]
    /\ last' = NoCall
    /\ UNCHANGED <<DEBUG, CUSTOM_MODEL_CLASS, other, store, registry, heap, records,
                   subscriptions, handed, introspected>>

\* store.destroy() begins: isDestroying is set.
BeginDestroy ==
  /\ ~store.isDestroying
  /\ store' = [store EXCEPT !.isDestroying = TRUE]
  /\ last' = NoCall
  /\ UNCHANGED <<DEBUG, CUSTOM_MODEL_CLASS, other, registry, classes, heap, records,
                 subscriptions, handed, introspected>>

\* The destruction completes: isDestroyed is set.
FinishDestroy ==
  /\ store.isDestroying /\ ~store.isDestroyed
  /\ store' = [store EXCEPT !.isDestroyed = TRUE]
  /\ last' = NoCall
  /\ UNCHANGED <<DEBUG, CUSTOM_MODEL_CLASS, other, registry, classes, heap, records,
                 subscriptions, handed, introspected>>

\* The notification manager delivers a change of an identifier to its subscribers.
Notify ==
  \E identifier \in Identifiers :
    /\ \E i \in 1..Len(subscriptions) : subscriptions[i].identifier = identifier
    /\ \A i \in 1..Len(subscriptions) :
         subscriptions[i].identifier = identifier
           => records[subscriptions[i].record].changes < MaxChanges
    /\ records' = Deliver(records, subscriptions, identifier)
    /\ last' = [op |-> "notify", args |-> <<identifier>>, k |-> "return",
                v |-> Undefined, log |-> <<>>]
    /\ UNCHANGED <<DEBUG, CUSTOM_MODEL_CLASS, other, store, registry, classes, heap,
                   subscriptions, handed, introspected>>

(***************************************************************************)
(* The specifications.  Each one runs the store's methods named in it      *)
(* against the environment's steps that bear on them; the type names and   *)
(* registrations it draws from are listed with it.                         *)
(***************************************************************************)
Strings(names) == {Str(s) : s \in names}
AliasNames == { <<"a", "B">>, <<"a", "_", "b">> }
ValidNames == TypeStrings \ {<<>>}
ModelRegistrations == CanonicalNames \X {"P"}
AliasRegistrations == {normalizeModelName(s) : s \in AliasNames} \X Factories

\* Factory resolution, the destroyed-store guards and the schema service handle.
Next ==
  \/ ModelFor(ModelNameArgs)
  \/ ModelFactoryFor(ModelNameArgs)
  \/ HasModelFor(ModelNameArgs)
  \/ GetSchemaDefinitionService
  \/ Register(AliasRegistrations)
  \/ Unregister(CanonicalNames)
  \/ BeginDestroy
  \/ FinishDestroy

Spec == Init /\ [][Next]_vars

\* The factory cache together with both definition caches.
SchemaNext ==
  \/ ModelFactoryFor(Strings(ValidNames))
  \/ AttributesDefinitionFor(AliasNames)
  \/ RelationshipsDefinitionFor(AliasNames)
  \/ Register(AliasRegistrations)
  \/ Unregister(CanonicalNames)
  \/ BeginDestroy
  \/ FinishDestroy

SchemaSpec == Init /\ [][SchemaNext]_vars

\* The attribute definitions cache under changes of the classes' attributes.
AttributesNext ==
  \/ AttributesDefinitionFor(AliasNames)
  \/ ModelFactoryFor(Strings(ValidNames))
  \/ Register(AliasRegistrations)
  \/ Unregister(CanonicalNames)
  \/ DefineAttributes
  \/ BeginDestroy
  \/ FinishDestroy

AttributesSpec == Init /\ [][AttributesNext]_vars

\* The relationship definitions cache under changes of the classes' relationships.
RelationshipsNext ==
  \/ RelationshipsDefinitionFor(AliasNames)
  \/ RelationshipMetaFor(AliasNames)
  \/ Register(AliasRegistrations)
  \/ Unregister(CanonicalNames)
  \/ DefineRelationships
  \/ BeginDestroy
  \/ FinishDestroy

RelationshipsSpec == Init /\ [][RelationshipsNext]_vars

\* modelFor next to the definition methods that call it.
ModelForNext ==
  \/ ModelFor(Strings(ValidNames))
  \/ AttributesDefinitionFor(AliasNames)
  \/ RelationshipsDefinitionFor(AliasNames)
  \/ Register(AliasRegistrations)
  \/ Unregister(CanonicalNames)

ModelForSpec == Init /\ [][ModelForNext]_vars

\* Two Store instances of one owner, called in turn.
StoreNames == {<<"p">>}

StoresNext ==
  \/ ModelFactoryFor(Strings(StoreNames))
  \/ HasModelFor(Strings(StoreNames))
  \/ ModelFor(Strings(StoreNames))
  \/ AttributesDefinitionFor(StoreNames)
  \/ RelationshipsDefinitionFor(StoreNames)
  \/ GetSchemaDefinitionService
  \/ SwitchStore
  \/ Register(ModelRegistrations)

StoresSpec == Init /\ [][StoresNext]_vars

\* Record instantiation, teardown and the delivery of notifications.
RecordNext ==
  \/ InstantiateRecord
  \/ TeardownRecord
  \/ Notify
  \/ Register(ModelRegistrations)

\* instantiateRecord and teardownRecord do not read the feature flag, and on a
\* store that is never destroyed the guard does the same under either value of
\* shouldAssertMethodCallsOnDestroyedStore: one value of each is enough.
RecordInit ==
  /\ Init
  /\ ~CUSTOM_MODEL_CLASS
  /\ ~store.shouldAssertMethodCallsOnDestroyedStore

RecordSpec == RecordInit /\ [][RecordNext]_vars

(***************************************************************************)
(* The claims.                                                             *)
(***************************************************************************)
Deprecations(log) == SelectSeq(log, LAMBDA ev : ev.e = "deprecate")
Lookups(log) == SelectSeq(log, LAMBDA ev : ev.e = "lookup")
IsValidName(v) == v.t = "string" /\ v.s \in ValidNames
Active == ~store.isDestroying /\ ~store.isDestroyed
Registered(name) == name \in DOMAIN registry /\ registry[name] # NoFactory

\* C1: whenever _modelFactoryFor returns, it returns the factory it first
\* returned for the same canonical name, whichever type string it is asked with
\* and whatever was registered, unregistered or called in between; that factory
\* is the one the cache holds.
C1_SameFactory ==
  (last.op = "_modelFactoryFor" /\ last.k = "return") =>
    LET name == normalizeModelName(last.args[1].s)
    IN /\ name \in DOMAIN handed
       /\ last.v = handed[name].factory
       /\ Get(store._modelFactoryCache, name) = last.v

\* C1's case: a second type string of the same canonical name is answered from
\* the cache, with no lookup, after the registration has changed.
C1_Witness ==
  /\ last.op = "_modelFactoryFor" /\ last.k = "return"
  /\ LET name == normalizeModelName(last.args[1].s)
     IN /\ name \in DOMAIN handed
        /\ handed[name].by # last.args[1].s
        /\ registry[name] # last.v.id
        /\ Lookups(last.log) = <<>>

\* C3 as stated: on an active store _hasModelFor returns false, without
\* raising, whenever no factory is registered for the type.
C3_Original ==
  (last.op = "_hasModelFor" /\ Active /\ IsValidName(last.args[1])
   /\ ~Registered(normalizeModelName(last.args[1].s)))
    => (last.k = "return" /\ last.v = Bool(FALSE))

\* C3 as amended: on an active store _hasModelFor never raises for a type name;
\* it returns true when a factory is registered for the type, and false when
\* none is registered and none was cached before the call; a false answer
\* leaves nothing in the cache.
C3_Amended ==
  (last.op = "_hasModelFor" /\ Active /\ IsValidName(last.args[1])) =>
    LET name == normalizeModelName(last.args[1].s)
        cachedBefore == Lookups(last.log) = <<>>
    IN /\ last.k = "return"
       /\ last.v = Bool(Registered(name) \/ cachedBefore)
       /\ last.v = Bool(FALSE) => name \notin DOMAIN store._modelFactoryCache

\* C3's case: a call that found nothing cached, asked the owner and answers true.
C3_Witness ==
  /\ last.op = "_hasModelFor" /\ Active /\ IsValidName(last.args[1])
  /\ last.v = Bool(TRUE)
  /\ Lookups(last.log) # <<>>

\* C6: with the flag off getSchemaDefinitionService throws its message and no
\* service is ever constructed; with the flag on every call returns the one
\* service the store constructed first, and no second one is constructed.
C6_OneService ==
  /\ heap["services"] <= 1
  /\ ~CUSTOM_MODEL_CLASS =>
       heap["services"] = 0 /\ store._schemaDefinitionService = Undefined
  /\ last.op = "getSchemaDefinitionService" =>
       IF CUSTOM_MODEL_CLASS
       THEN /\ last.k = "return"
            /\ last.v = [t |-> "service", ref |-> 1]
            /\ store._schemaDefinitionService = last.v
       ELSE /\ last.k = "throw"
            /\ last.v = Error("string", SchemaServiceMessage, <<>>)

\* C6's case: a call that returns the service without constructing one.
C6_Witness ==
  /\ CUSTOM_MODEL_CLASS
  /\ last.op = "getSchemaDefinitionService" /\ last.k = "return"
  /\ last.log = <<>>

Strict == store.shouldAssertMethodCallsOnDestroyedStore
DestroyedOnlyGuarded == {"modelFor", "_modelFactoryFor"}
DestroyedStoreWarning(method) == Event("deprecate", DestroyedStoreMessage, <<method>>)
DestroyedStoreError(method) == Error("Assertion Failed", DestroyedStoreMessage, <<method>>)
Caches(st) == <<st._modelFactoryCache, st._attributesDefCache, st._relationshipsDefCache>>

\* C9 as stated: in transitional mode on a destroyed store, a call of modelFor
\* or _modelFactoryFor emits exactly one deprecation, which names the method.
C9_Original ==
  (last.op \in DestroyedOnlyGuarded /\ ~Strict /\ store.isDestroyed)
    => Deprecations(last.log) = <<DestroyedStoreWarning(last.op)>>

\* C9 as amended: in transitional mode on a destroyed store, in a debug build,
\* _modelFactoryFor emits exactly one deprecation naming it; modelFor emits one
\* naming modelFor and, when its argument passes the asserts, a second one
\* naming _modelFactoryFor, from the call it makes; in a production build
\* neither emits any.  The call then ends as it would on an active store: the
\* same return value or error, the same caches.
C9_Amended ==
  [][ (last'.op \in DestroyedOnlyGuarded /\ ~Strict /\ store.isDestroyed) =>
        LET modelName == last'.args[1]
            active == [Context EXCEPT !.store.isDestroying = FALSE,
                                      !.store.isDestroyed = FALSE]
            onActive == IF last'.op = "modelFor" THEN modelFor(active, modelName)
                        ELSE _modelFactoryFor(active, modelName)
        IN /\ Deprecations(last'.log) =
                IF ~DEBUG THEN <<>>
                ELSE IF last'.op = "modelFor" /\ isPresent(modelName)
                        /\ typeof(modelName) = "string"
                     THEN <<DestroyedStoreWarning("modelFor"),
                            DestroyedStoreWarning("_modelFactoryFor")>>
                     ELSE <<DestroyedStoreWarning(last'.op)>>
           /\ Deprecations(onActive.c.log) = <<>>
           /\ last'.k = onActive.k
           /\ last'.v = onActive.v
           /\ Caches(store') = Caches(onActive.c.store) ]_vars

\* C9's case: modelFor returns on a destroyed store after two deprecations.
C9_Witness ==
  /\ DEBUG /\ ~Strict /\ store.isDestroyed
  /\ last.op = "modelFor" /\ last.k = "return"
  /\ Len(Deprecations(last.log)) = 2

\* C10 as stated: in strict mode on a destroyed store, a call of modelFor or
\* _modelFactoryFor throws the destroyed-store error naming the method.
C10_Original ==
  (last.op \in DestroyedOnlyGuarded /\ Strict /\ store.isDestroyed)
    => (last.k = "throw" /\ last.v = DestroyedStoreError(last.op))

\* C10 as amended: in a debug build, in strict mode on a destroyed store, a
\* call of modelFor or _modelFactoryFor throws the destroyed-store error naming
\* the method, whatever its argument, before any lookup, and leaves the store's
\* caches and everything else of the store as they were.
C10_Amended ==
  [][ (last'.op \in DestroyedOnlyGuarded /\ DEBUG /\ Strict /\ store.isDestroyed) =>
        /\ last'.k = "throw"
        /\ last'.v = DestroyedStoreError(last'.op)
        /\ last'.log = <<>>
        /\ store' = store
        /\ heap' = heap ]_vars

\* C10's case: the guard throws for a call whose argument is no type name.
C10_Witness ==
  /\ DEBUG /\ Strict /\ store.isDestroyed
  /\ last.op = "_modelFactoryFor" /\ last.args[1] = Undefined
  /\ last.k = "throw" /\ last.v = DestroyedStoreError("_modelFactoryFor")
  /\ store._modelFactoryCache # EmptyObject

Kept(before, after) ==
  \A s \in DOMAIN before : s \in DOMAIN after /\ after[s] = before[s]
GuardThrows == DEBUG /\ Strict /\ store.isDestroyed
NotFound(name) == Error("EmberError", NoModelMessage, name)

\* C2: in legacy mode an entry of the attribute definitions cache, once
\* written, is never recomputed, replaced or removed by any step, changes of
\* the class's attributes included, and a call for a type that has an entry
\* returns that very entry without looking at the class.
C2_Memoized ==
  [][ ~CUSTOM_MODEL_CLASS =>
        /\ Kept(store._attributesDefCache, store'._attributesDefCache)
        /\ (last'.op = "_attributesDefinitionFor"
            /\ last'.args[1].s \in DOMAIN store._attributesDefCache)
           => /\ last'.k = "return"
              /\ last'.v = store._attributesDefCache[last'.args[1].s]
              /\ last'.log = <<>>
              /\ store' = store /\ heap' = heap
        /\ (last'.op = "_attributesDefinitionFor" /\ last'.k = "return")
           => last'.v = store'._attributesDefCache[last'.args[1].s] ]_vars

\* C2's case: a second call returns the cached definitions although the
\* class's attributes have changed since the first.
C2_Witness ==
  /\ ~CUSTOM_MODEL_CLASS
  /\ last.op = "_attributesDefinitionFor" /\ last.k = "return"
  /\ last.log = <<>>
  /\ registry[normalizeModelName(last.args[1].s)] = "P"
  /\ last.v.keys # classes["P"].attributes

\* C4 as stated: _modelFactoryFor for a type with no registered factory
\* throws the error that carries the normalized name.
C4_Original ==
  (last.op = "_modelFactoryFor"
   /\ registry[normalizeModelName(last.args[1].s)] = NoFactory)
    => (last.k = "throw" /\ last.v = NotFound(normalizeModelName(last.args[1].s)))

\* C4 as amended: when the destroyed-store guard lets the call through,
\* _modelFactoryFor for a type with no registered factory and no cached
\* factory throws the error that carries the normalized name and leaves the
\* factory cache and both definition caches as they were; and once the type
\* is registered, the same call, and in legacy mode _attributesDefinitionFor
\* and _relationshipsDefinitionFor for that type, return.
C4_Amended ==
  [][ (last'.op \in {"_modelFactoryFor", "_attributesDefinitionFor",
                     "_relationshipsDefinitionFor"} /\ ~GuardThrows) =>
        LET name == normalizeModelName(last'.args[1].s)
        IN /\ (last'.op = "_modelFactoryFor" /\ registry[name] = NoFactory
               /\ name \notin DOMAIN store._modelFactoryCache)
              => /\ last'.k = "throw"
                 /\ last'.v = NotFound(name)
                 /\ Caches(store') = Caches(store)
           /\ (registry[name] # NoFactory
               /\ (last'.op = "_modelFactoryFor" \/ ~CUSTOM_MODEL_CLASS))
              => last'.k = "return" ]_vars

\* C4's case: the lookup of an unregistered type fails under its normalized
\* name while the store holds factories and definitions of another type.
C4_Witness ==
  /\ last.op = "_modelFactoryFor" /\ last.k = "throw"
  /\ last.args[1] = Str(<<"p">>) /\ last.v = NotFound(<<"p">>)
  /\ store._modelFactoryCache # EmptyObject
  /\ store._attributesDefCache # EmptyObject
  /\ store._relationshipsDefCache # EmptyObject

\* C5: in legacy mode _relationshipsDefinitionFor never returns undefined: for
\* a class without relationships it returns null and caches it; an entry of
\* the cache, null included, is never replaced, a call for a type name that
\* has an entry returns the entry without introspecting the class, and the
\* class's relationships are read at most once for a type name.
C5_NullCached ==
  [][ ~CUSTOM_MODEL_CLASS =>
        /\ Kept(store._relationshipsDefCache, store'._relationshipsDefCache)
        /\ \A s \in DOMAIN introspected' : introspected'[s] <= 1
        /\ (last'.op = "_relationshipsDefinitionFor" /\ last'.k = "return")
           => LET s == last'.args[1].s
              IN /\ last'.v # Undefined
                 /\ last'.v = store'._relationshipsDefCache[s]
                 /\ s \in DOMAIN store._relationshipsDefCache
                    => (introspected' = introspected /\ last'.log = <<>>)
                 /\ (s \notin DOMAIN store._relationshipsDefCache
                     /\ LET f == store'._modelFactoryCache[normalizeModelName(s)].id
                        IN classes[f].isModel
                             => classes[f].relationshipsObject = NoRelationships)
                    => last'.v = Null ]_vars

\* C5's case: a later call gets the cached null without a new introspection.
C5_Witness ==
  /\ ~CUSTOM_MODEL_CLASS
  /\ last.op = "_relationshipsDefinitionFor" /\ last.k = "return"
  /\ last.v = Null /\ last.log = <<>>
  /\ introspected[last.args[1].s] = 1

SubscriptionsOf(record) ==
  {i \in 1..Len(subscriptions) : subscriptions[i].record = record}

\* C7: a successful instantiateRecord adds exactly one subscription, for its
\* identifier and bound to the record it has just created; a failed one adds
\* none; so every record has exactly one subscription, and a delivery changes
\* a record only through that record's own subscription, once.
C7_OwnSubscription ==
  [][ /\ \A r \in DOMAIN records :
           /\ Cardinality(SubscriptionsOf(r)) = 1
           /\ \A i \in SubscriptionsOf(r) :
                subscriptions[i].identifier = records[r].identifier
      /\ (last'.op = "instantiateRecord" /\ last'.k = "return")
         => /\ last'.v.ref \notin DOMAIN records
            /\ last'.v.ref \in DOMAIN records'
            /\ records'[last'.v.ref].identifier = last'.args[1]
            /\ subscriptions' =
                 Append(subscriptions, [identifier |-> last'.args[1],
                                        record |-> last'.v.ref])
      /\ (last'.op = "instantiateRecord" /\ last'.k = "throw")
         => subscriptions' = subscriptions
      /\ \A r \in DOMAIN records :
           records'[r].changes # records[r].changes
             => /\ last'.op = "notify"
                /\ records[r].identifier = last'.args[1]
                /\ records'[r].changes = records[r].changes + 1 ]_vars

\* C7's case: two records exist and a delivery has reached only the one whose
\* identifier it was for.
C7_Witness ==
  /\ last.op = "notify"
  /\ \E r1, r2 \in DOMAIN records :
       /\ records[r1].identifier = last.args[1]
       /\ records[r2].identifier # last.args[1]
       /\ records[r1].changes = 1
       /\ records[r2].changes = 0
       /\ Cardinality(SubscriptionsOf(r1)) = 1
       /\ Cardinality(SubscriptionsOf(r2)) = 1

\* C8 as stated: once teardownRecord has completed for a record, the
\* subscription instantiateRecord registered for it is released.
C8_Released ==
  \A i \in 1..Len(subscriptions) : ~records[subscriptions[i].record].isDestroyed

Guarded == DestroyedOnlyGuarded \cup {"_hasModelFor"}
\* The call of a guarded method on a context.
Call(op, c, modelName) ==
  CASE op = "modelFor" -> modelFor(c, modelName)
    [] op = "_modelFactoryFor" -> _modelFactoryFor(c, modelName)
    [] op = "_hasModelFor" -> _hasModelFor(c, modelName)
ActiveContext ==
  [Context EXCEPT !.store.isDestroying = FALSE, !.store.isDestroyed = FALSE]

\* C11 as stated: in strict mode on a store that is being destroyed, or is
\* destroyed, _hasModelFor throws the destroyed-store error.
C11_Original ==
  (last.op = "_hasModelFor" /\ Strict /\ store.isDestroying)
    => (last.k = "throw" /\ last.v = DestroyedStoreError("_hasModelFor"))

\* C11 as amended: in strict mode, in a debug build, _hasModelFor throws the
\* destroyed-store error while the store is being destroyed or is destroyed,
\* modelFor and _modelFactoryFor throw it only once the store is destroyed;
\* wherever a guard does not trip (an active store, a store being destroyed
\* for the destroyed-only guard, and every state in a production build) the
\* call ends as on an active store, with no warning.
C11_Amended ==
  [][ (last'.op \in Guarded /\ Strict) =>
        LET trips == /\ DEBUG
                     /\ IF last'.op = "_hasModelFor"
                        THEN store.isDestroying \/ store.isDestroyed
                        ELSE store.isDestroyed
            onActive == Call(last'.op, ActiveContext, last'.args[1])
        IN IF trips
           THEN /\ last'.k = "throw"
                /\ last'.v = DestroyedStoreError(last'.op)
                /\ last'.log = <<>>
                /\ store' = store
           ELSE /\ last'.k = onActive.k
                /\ last'.v = onActive.v
                /\ last'.log = onActive.c.log
                /\ Deprecations(last'.log) = <<>>
                /\ last'.v # DestroyedStoreError(last'.op)
                /\ Caches(store') = Caches(onActive.c.store) ]_vars

\* C11's case: on a store that is being destroyed and is not yet destroyed,
\* _hasModelFor is refused for a type that modelFor and _modelFactoryFor
\* have resolved.
C11_Witness ==
  /\ DEBUG /\ Strict /\ store.isDestroying /\ ~store.isDestroyed
  /\ last.op = "_hasModelFor" /\ IsValidName(last.args[1])
  /\ last.v = DestroyedStoreError("_hasModelFor")
  /\ normalizeModelName(last.args[1].s) \in DOMAIN store._modelFactoryCache

\* C12: when _modelFactoryFor fails for the identifier's type, instantiateRecord
\* throws that very error (the not-found error when the type is neither
\* registered nor cached), constructs no record and subscribes nothing; it
\* throws in no other case.
C12_AllOrNothing ==
  [][ last'.op = "instantiateRecord" =>
        LET type == last'.args[1].type
            factory == _modelFactoryFor(Context, Str(type))
        IN /\ (last'.k = "throw") = (factory.k = "throw")
           /\ (registry[normalizeModelName(type)] = NoFactory
               /\ normalizeModelName(type) \notin DOMAIN store._modelFactoryCache)
              => (last'.k = "throw" /\ last'.v = NotFound(normalizeModelName(type)))
           /\ last'.k = "throw"
              => /\ last'.v = factory.v
                 /\ records' = records
                 /\ subscriptions' = subscriptions
                 /\ heap' = heap
                 /\ store' = store ]_vars

\* C12's case: instantiateRecord fails for an unregistered type while the
\* record and the subscription of an earlier call exist.
C12_Witness ==
  /\ last.op = "instantiateRecord" /\ last.k = "throw"
  /\ last.v = NotFound(normalizeModelName(last.args[1].type))
  /\ Len(subscriptions) = 1
  /\ DOMAIN records = {1}
  /\ subscriptions[1].identifier # last.args[1]

DefaultKeys == {"store", "_internalModel", "currentState", "container"}
\* The options the record of the last instantiateRecord call was created with.
CreatedWith == records[last.v.ref].createOptions

\* C13 as stated: every default key the caller supplies as well reaches the
\* factory's create with the caller's value.
C13_Original ==
  (last.op = "instantiateRecord" /\ last.k = "return") =>
    \A key \in DefaultKeys \cap DOMAIN last.args[2] :
      key \in DOMAIN CreatedWith /\ CreatedWith[key] = last.args[2][key]

\* C13 as amended: the keys store, _internalModel and currentState reach
\* create with the caller's value when the caller supplies them and with the
\* default otherwise; the caller's other keys reach it as given; the container
\* key never reaches it, whether the caller supplied one or not.
C13_Amended ==
  (last.op = "instantiateRecord" /\ last.k = "return") =>
    LET createRecordArgs == last.args[2]
        internalModel == _internalModelForResource(last.args[1])
    IN /\ "container" \notin DOMAIN CreatedWith
       /\ \A key \in DOMAIN createRecordArgs \ {"container"} :
            key \in DOMAIN CreatedWith /\ CreatedWith[key] = createRecordArgs[key]
       /\ \A key \in (DefaultKeys \ {"container"}) \ DOMAIN createRecordArgs :
            /\ key \in DOMAIN CreatedWith
            /\ CreatedWith[key] =
                 CASE key = "store" -> [t |-> "store"]
                   [] key = "_internalModel" -> internalModel
                   [] key = "currentState" -> internalModel.currentState
       /\ DOMAIN CreatedWith =
            ((DefaultKeys \cup DOMAIN createRecordArgs) \ {"container"}) \cup {"OWNER"}

\* C13's case: a record created from arguments that name every default key.
C13_Witness ==
  /\ last.op = "instantiateRecord" /\ last.k = "return"
  /\ DefaultKeys \subseteq DOMAIN last.args[2]
  /\ CreatedWith["currentState"] = CallerState
  /\ CreatedWith["store"] = CallerState

\* The method name the asserts of a method put in their message.
NameInAsserts(op) == IF op = "_hasModelFor" THEN "hasModelFor" ELSE op
InvalidArgument(op, modelName) ==
  IF ~isPresent(modelName)
  THEN Error("Assertion Failed", NeedModelNameMessage, <<NameInAsserts(op)>>)
  ELSE Error("Assertion Failed", PassingClassesMessage, <<>>)

\* C14 as stated: on an active store modelFor, _modelFactoryFor and
\* _hasModelFor throw the assertion error for a name that is absent, empty or
\* no string.
C14_Original ==
  (last.op \in Guarded /\ Active /\ ~IsValidName(last.args[1]))
    => (last.k = "throw" /\ last.v = InvalidArgument(last.op, last.args[1]))

\* C14 as amended: in a debug build, on an active store, the three methods
\* throw the assertion error for a name that is absent, empty or no string,
\* before any normalization or lookup, and leave the store as it was; the
\* error is not the one thrown for an unregistered name.  In a production
\* build no call ever throws the assertion error.
C14_Amended ==
  [][ (last'.op \in Guarded /\ Active) =>
        /\ (DEBUG /\ ~IsValidName(last'.args[1]))
           => /\ last'.k = "throw"
              /\ last'.v = InvalidArgument(last'.op, last'.args[1])
              /\ last'.v.class # NotFound(<<>>).class
              /\ last'.log = <<>>
              /\ store' = store
        /\ (DEBUG /\ IsValidName(last'.args[1]) /\ last'.k = "throw")
           => last'.v = NotFound(normalizeModelName(last'.args[1].s))
        /\ ~DEBUG => ~(last'.k = "throw" /\ last'.v.class = "Assertion Failed") ]_vars

\* C14's case: an empty name is refused on a store whose cache holds a factory.
C14_Witness ==
  /\ DEBUG /\ Active
  /\ last.op = "_hasModelFor" /\ last.args[1] = Str(<<>>)
  /\ last.v = Error("Assertion Failed", NeedModelNameMessage, <<"hasModelFor">>)
  /\ store._modelFactoryCache # EmptyObject

OnePerCanonicalName(cache) ==
  \A s1, s2 \in DOMAIN cache :
    normalizeModelName(s1) = normalizeModelName(s2) => s1 = s2

\* C15 as stated: in legacy mode each definition cache holds at most one entry
\* for a canonical name, whichever type strings the definitions were asked
\* with.
C15_PerCanonicalType ==
  ~CUSTOM_MODEL_CLASS =>
    /\ OnePerCanonicalName(store._attributesDefCache)
    /\ OnePerCanonicalName(store._relationshipsDefCache)

Meta(key) == [t |-> "meta", key |-> key]

\* C16: in legacy mode _relationshipMetaFor leaves the relationship definitions
\* cache as it was and runs none of its introspections, and for a model class
\* it answers with what the class declares for the key now, whatever the
\* cache holds for the type; with the feature flag on it ends as
\* _relationshipsDefinitionFor does and answers with that result's entry for
\* the key.
C16_LiveLookup ==
  [][ last'.op = "_relationshipMetaFor" =>
        LET modelName == last'.args[1]
            key == last'.args[3].s[1]
            definitions == _relationshipsDefinitionFor(Context, modelName)
            modelClass == modelFor(Context, modelName)
        IN IF CUSTOM_MODEL_CLASS
           THEN /\ last'.k = definitions.k
                /\ store' = definitions.c.store
                /\ definitions.k = "return"
                   => last'.v = IF key \in definitions.v.keys THEN Meta(key)
                                ELSE Undefined
           ELSE /\ store'._relationshipsDefCache = store._relationshipsDefCache
                /\ introspected' = introspected
                /\ last'.k = modelClass.k
                /\ (modelClass.k = "return" /\ modelClass.v.t = "class")
                   => last'.v =
                        IF /\ classes[modelClass.v.id].relationshipsObject
                                # NoRelationships
                           /\ key \in classes[modelClass.v.id].relationshipsObject.keys
                        THEN Meta(key) ELSE Undefined ]_vars

\* C16's case: the class declares the key now, the cache still holds the null
\* of an earlier _relationshipsDefinitionFor, and the lookup finds the key.
C16_Witness ==
  /\ ~CUSTOM_MODEL_CLASS
  /\ last.op = "_relationshipMetaFor" /\ last.k = "return"
  /\ last.v = Meta(last.args[3].s[1])
  /\ Get(store._relationshipsDefCache, last.args[1].s) = Null

StoreOperations ==
  {"_modelFactoryFor", "_hasModelFor", "modelFor", "_attributesDefinitionFor",
   "_relationshipsDefinitionFor", "getSchemaDefinitionService"}
Values(object) == {object[k] : k \in DOMAIN object}

C18_ClassOrFreshShim ==
  [][ /\ heap'["shims"] >= heap["shims"]
      /\ (last.op = "modelFor" /\ last.k = "return" /\ last.v.t = "shim")
         => last.v.ref <= heap["shims"]
      /\ (last'.op = "modelFor" /\ last'.k = "return") =>
           LET maybeFactory ==
                 store'._modelFactoryCache[normalizeModelName(last'.args[1].s)]
           IN IF classes[maybeFactory.id].isModel
              THEN last'.v = Class(maybeFactory.id) /\ heap' = heap
              ELSE /\ last'.v = [t |-> "shim", ref |-> heap["shims"] + 1,
                                 modelName |-> last'.args[1]]
                   /\ heap'["shims"] = heap["shims"] + 1
      /\ \A i \in 1..3 : \A v \in Values(Caches(store')[i]) : v.t # "shim" ]_vars

\* C18's case: a second call of modelFor for a type whose class is no model
\* has returned the second stand-in, while both definitions caches hold what
\* they got from the first.
C18_Witness ==
  /\ last.op = "modelFor" /\ last.k = "return"
  /\ last.v.t = "shim" /\ last.v.ref = 2
  /\ store._modelFactoryCache # EmptyObject
  /\ \/ store._attributesDefCache # EmptyObject
     \/ store._relationshipsDefCache # EmptyObject

DefinitionMethods == {"_attributesDefinitionFor", "_relationshipsDefinitionFor"}
DefCache(st, op) ==
  IF op = "_attributesDefinitionFor" THEN st._attributesDefCache
  ELSE st._relationshipsDefCache

\* C19 as stated: in legacy mode, on a destroyed store in strict mode,
\* _attributesDefinitionFor and _relationshipsDefinitionFor return the cached
\* entry of a type that has one, with no warning and no change of the store,
\* and for a type that has none throw the destroyed-store error that names
\* modelFor, leaving the store as it was.
C19_Original ==
  [][ (~CUSTOM_MODEL_CLASS /\ last'.op \in DefinitionMethods
       /\ Strict /\ store.isDestroyed) =>
        IF last'.args[1].s \in DOMAIN DefCache(store, last'.op)
        THEN /\ last'.k = "return"
             /\ last'.v = DefCache(store, last'.op)[last'.args[1].s]
             /\ last'.log = <<>>
             /\ store' = store
        ELSE /\ last'.k = "throw"
             /\ last'.v = DestroyedStoreError("modelFor")
             /\ store' = store ]_vars

\* C19 as amended: the same for a type that has an entry; for a type that has
\* none the destroyed-store error that names modelFor is thrown, and the
\* store left as it was, in a debug build; in a production build no guard
\* runs and the call neither throws that error nor warns.
C19_Amended ==
  [][ (~CUSTOM_MODEL_CLASS /\ last'.op \in DefinitionMethods
       /\ Strict /\ store.isDestroyed) =>
        IF last'.args[1].s \in DOMAIN DefCache(store, last'.op)
        THEN /\ last'.k = "return"
             /\ last'.v = DefCache(store, last'.op)[last'.args[1].s]
             /\ last'.log = <<>>
             /\ store' = store
        ELSE IF DEBUG
             THEN /\ last'.k = "throw"
                  /\ last'.v = DestroyedStoreError("modelFor")
                  /\ store' = store
             ELSE /\ last'.k = "throw" => last'.v.text # DestroyedStoreMessage
                  /\ Deprecations(last'.log) = <<>>
                  /\ last'.k = "return"
                     => last'.args[1].s \in DOMAIN DefCache(store', last'.op) ]_vars

\* C19's case: on a destroyed store in strict mode, in a debug build, a call
\* for a type without an entry has thrown the error naming modelFor while the
\* cache holds the entry of another type string, written before.
C19_Witness ==
  /\ ~CUSTOM_MODEL_CLASS /\ DEBUG /\ Strict /\ store.isDestroyed
  /\ last.op \in DefinitionMethods
  /\ last.k = "throw" /\ last.v = DestroyedStoreError("modelFor")
  /\ DefCache(store, last.op) # EmptyObject
  /\ last.args[1].s \notin DOMAIN DefCache(store, last.op)

====
